---- MODULE Spec2Model ----
(***************************************************************************)
(* Model of python/hdfs_native/cli.py: the command line front end of      *)
(* hdfs-native (cat, chmod, chown, get, mkdir, mv).                        *)
(*                                                                         *)
(* Strings of the program are sequences of one-character strings, so that  *)
(* URL parsing, basename and join are computed character by character as   *)
(* urllib.parse and os.path compute them.  The Filesystem Client is an     *)
(* external collaborator: every call made to it is appended to `calls`     *)
(* together with the outcome the collaborator chose.                       *)
(***************************************************************************)
EXTENDS Integers, Sequences, FiniteSets, TLC

(* ------------------------------ bounds -------------------------------- *)
\* longest list of sources / paths on a command line
MaxSrc == 2

(* ------------------------- strings and parsing ------------------------ *)
\* Python's None, as a value comparable with strings
None == <<"<None>">>

Alpha == {"a", "b", "d", "f", "h", "x", "y", "A", "B"}
Digits == {"0", "1", "2", "3", "4", "5", "6", "7", "8", "9"}
SchemeChars == Alpha \cup Digits \cup {"+", "-", "."}

DigitVal(c) ==
  CASE c = "0" -> 0 [] c = "1" -> 1 [] c = "2" -> 2 [] c = "3" -> 3 [] c = "4" -> 4
    [] c = "5" -> 5 [] c = "6" -> 6 [] c = "7" -> 7 [] c = "8" -> 8 [] c = "9" -> 9

DigitChar(n) ==
  CASE n = 0 -> "0" [] n = 1 -> "1" [] n = 2 -> "2" [] n = 3 -> "3" [] n = 4 -> "4"
    [] n = 5 -> "5" [] n = 6 -> "6" [] n = 7 -> "7" [] n = 8 -> "8" [] n = 9 -> "9"

\* str.lower() on one character
Lower(c) == CASE c = "A" -> "a" [] c = "B" -> "b" [] OTHER -> c

LowerStr(s) == [k \in 1..Len(s) |-> Lower(s[k])]

\* s[from..] and s[..to], as slices
Drop(s, n) == SubSeq(s, n + 1, Len(s))
Take(s, n) == SubSeq(s, 1, n)

RECURSIVE FindFrom(_, _, _)
\* str.find: the first index >= i of a character of C, 0 when there is none
FindFrom(s, C, i) ==
  IF i > Len(s) THEN 0
  ELSE IF s[i] \in C THEN i
  ELSE FindFrom(s, C, i + 1)

RECURSIVE RFind(_, _, _)
\* str.rfind: the last index <= i of a character of C, 0 when there is none
RFind(s, C, i) ==
  IF i < 1 THEN 0
  ELSE IF s[i] \in C THEN i
  ELSE RFind(s, C, i - 1)

RECURSIVE StrToInt(_)
\* int(s) of a string of decimal digits
StrToInt(s) ==
  IF s = << >> THEN 0
  ELSE 10 * StrToInt(Take(s, Len(s) - 1)) + DigitVal(s[Len(s)])

RECURSIVE IntToStr(_)
\* str(n) of a natural number
IntToStr(n) ==
  IF n < 10 THEN <<DigitChar(n)>>
  ELSE IntToStr(n \div 10) \o <<DigitChar(n % 10)>>

\* urllib.parse.urlsplit: [scheme, netloc, path]; query and fragment are cut off
urlparse(url) ==
  LET i == FindFrom(url, {":"}, 1)
      hasScheme == /\ i > 1
                   /\ url[1] \in Alpha
                   /\ \A k \in 1..(i - 1) : url[k] \in SchemeChars
      scheme == IF hasScheme THEN LowerStr(Take(url, i - 1)) ELSE << >>
      rest == IF hasScheme THEN Drop(url, i) ELSE url
      hasNetloc == Len(rest) >= 2 /\ rest[1] = "/" /\ rest[2] = "/"
      delim == IF hasNetloc THEN FindFrom(rest, {"/", "?", "#"}, 3) ELSE 0
      netloc == IF ~hasNetloc THEN << >>
                ELSE IF delim = 0 THEN Drop(rest, 2)
                ELSE SubSeq(rest, 3, delim - 1)
      rest2 == IF ~hasNetloc THEN rest
               ELSE IF delim = 0 THEN << >>
               ELSE Drop(rest, delim - 1)
      cut == FindFrom(rest2, {"?", "#"}, 1)
      path == IF cut = 0 THEN rest2 ELSE Take(rest2, cut - 1)
  IN  [scheme |-> scheme, netloc |-> netloc, path |-> path]

\* SplitResult.hostname: the netloc up to its first colon, lower-cased; None when empty
hostname(parsed) ==
  LET at == RFind(parsed.netloc, {"@"}, Len(parsed.netloc))
      hostinfo == Drop(parsed.netloc, at)
      c == FindFrom(hostinfo, {":"}, 1)
      host == IF c = 0 THEN hostinfo ELSE Take(hostinfo, c - 1)
  IN  IF host = << >> THEN None ELSE LowerStr(host)

\* the text after the first colon of the netloc
PortText(parsed) ==
  LET at == RFind(parsed.netloc, {"@"}, Len(parsed.netloc))
      hostinfo == Drop(parsed.netloc, at)
      c == FindFrom(hostinfo, {":"}, 1)
  IN  IF c = 0 THEN << >> ELSE Drop(hostinfo, c)

\* SplitResult.port raises ValueError for a port that is not a number in 0..65535
PortRaises(parsed) ==
  LET t == PortText(parsed)
  IN  t # << >> /\ ((\E k \in 1..Len(t) : t[k] \notin Digits) \/ StrToInt(t) > 65535)

\* SplitResult.port: the number, None when there is no port text
port(parsed) ==
  IF PortText(parsed) = << >> THEN None ELSE <<StrToInt(PortText(parsed))>>

\* the truth value of parsed.port: None and 0 are false
PortTruthy(parsed) == PortText(parsed) # << >> /\ StrToInt(PortText(parsed)) # 0

\* str() of a value that may be None, as an f-string formats it
Fmt(v) == IF v = None THEN <<"N", "o", "n", "e">> ELSE v

\* os.path.basename: what follows the last slash
basename(p) == Drop(p, RFind(p, {"/"}, Len(p)))

\* os.path.join of two components
join(a, b) ==
  IF b # << >> /\ b[1] = "/" THEN b
  ELSE IF a = << >> \/ a[Len(a)] = "/" THEN a \o b
  ELSE a \o <<"/">> \o b

_path_for_url(url) == urlparse(url).path

\* _glob_path is a stub: the pattern itself is the only result
_glob_path(client, glob) == <<glob>>

\* the cache key of _get_client() called without argument
DefaultConn == <<"<default>">>

\* _client_for_url raises ValueError (host or port without scheme, or a bad port)
ClientRaises(url) ==
  LET parsed == urlparse(url)
  IN  IF parsed.scheme # << >> THEN PortRaises(parsed)
      ELSE \/ hostname(parsed) # None
           \/ PortRaises(parsed)
           \/ PortTruthy(parsed)

\* the connection_url _client_for_url hands to _get_client
ConnectionUrl(url) ==
  LET parsed == urlparse(url)
  IN  IF parsed.scheme # << >>
      THEN parsed.scheme \o <<":", "/", "/">> \o Fmt(hostname(parsed))
             \o (IF PortTruthy(parsed)
                 THEN <<":">> \o IntToStr(port(parsed)[1]) ELSE << >>)
      ELSE DefaultConn

\* the number of the Client constructed last, 0 when none has been constructed
LastId(cache) ==
  IF DOMAIN cache = {} THEN 0
  ELSE CHOOSE n \in {cache[c].id : c \in DOMAIN cache} :
         \A c \in DOMAIN cache : cache[c].id <= n

\* Client(connection_url): a new instance, numbered in the order of construction
Client(cache, connection_url) == [conn |-> connection_url, id |-> LastId(cache) + 1]

\* _get_client without functools.cache: every call constructs a Client
_get_client_uncached(cache, connection_url) ==
  (connection_url :> Client(cache, connection_url)) @@ cache

\* @functools.cache _get_client: the cache after the call; the Client the call
\* returns is the entry of connection_url, constructed only when there was none
_get_client(cache, connection_url) ==
  IF connection_url \in DOMAIN cache THEN cache
  ELSE (connection_url :> Client(cache, connection_url)) @@ cache

\* NameservicesMismatch that compares the whole netloc, port included
NameservicesMismatchNetloc(url, urls) ==
  LET first == urlparse(url)
  IN  \E k \in 1..Len(urls) :
        LET parsed == urlparse(urls[k])
        IN  first.scheme # parsed.scheme \/ first.netloc # parsed.netloc

\* _verify_nameservices_match raises ValueError
NameservicesMismatch(url, urls) ==
  LET first == urlparse(url)
  IN  \E k \in 1..Len(urls) :
        LET parsed == urlparse(urls[k])
        IN  first.scheme # parsed.scheme \/ hostname(first) # hostname(parsed)

\* re.fullmatch(r"1?[0-7]{3}", s)
OctalDigits == {"0", "1", "2", "3", "4", "5", "6", "7"}

\* ModeMatches for the pattern [0-7]?[0-7]{3}
ModeMatchesAnyLead(s) ==
  \/ Len(s) = 3 /\ \A k \in 1..3 : s[k] \in OctalDigits
  \/ Len(s) = 4 /\ \A k \in 1..4 : s[k] \in OctalDigits

ModeMatches(s) ==
  \/ Len(s) = 3 /\ \A k \in 1..3 : s[k] \in OctalDigits
  \/ Len(s) = 4 /\ s[1] = "1" /\ \A k \in 2..4 : s[k] \in OctalDigits

RECURSIVE OctToInt(_)
\* int(s, base=8)
OctToInt(s) ==
  IF s = << >> THEN 0
  ELSE 8 * OctToInt(Take(s, Len(s) - 1)) + DigitVal(s[Len(s)])

RECURSIVE Split(_, _)
\* str.split(sep)
Split(s, sep) ==
  LET c == FindFrom(s, {sep}, 1)
  IN  IF c = 0 THEN <<s>> ELSE <<Take(s, c - 1)>> \o Split(Drop(s, c), sep)

(* ------------------------------- inputs ------------------------------- *)
\* "h://A/x", "h://A/y", "h://B/x", "h://A:8/x": scheme, host, optional port, path
UAx == <<"h", ":", "/", "/", "A", "/", "x">>
UAy == <<"h", ":", "/", "/", "A", "/", "y">>
UBx == <<"h", ":", "/", "/", "B", "/", "x">>
UAPortx == <<"h", ":", "/", "/", "A", ":", "8", "/", "x">>
\* "h://A/b/x": same basename as "h://A/x", another remote directory
UAbx == <<"h", ":", "/", "/", "A", "/", "b", "/", "x">>
\* "h://A//b/x": a path component that begins with two slashes
UASlashbx == <<"h", ":", "/", "/", "A", "/", "/", "b", "/", "x">>
\* "h://A/d", "h://B/d": destinations of mv
UAd == <<"h", ":", "/", "/", "A", "/", "d">>
UBd == <<"h", ":", "/", "/", "B", "/", "d">>
\* "/x": neither scheme nor host;  "//A/x": a host without a scheme
Ux == <<"/", "x">>
UNoScheme == <<"/", "/", "A", "/", "x">>
\* "//:0/x": port 0, without a scheme and without a host
UPort0 == <<"/", "/", ":", "0", "/", "x">>

\* every list of 1..MaxSrc elements of U (argparse nargs="+")
Lists(U) == UNION {[1..n -> U] : n \in 1..MaxSrc}

SeqUrls == {UAx, Ux, UNoScheme}
CatUrls == SeqUrls \cup {UAy, UPort0}
GetUrls == {UAbx, UBx, UNoScheme}
MvUrls == {UAx, UAy, UBx, UAPortx, UASlashbx, UNoScheme}
MvDsts == {UAd, UBd, UNoScheme}

\* "644", "1755", "0644", "999", "12345"
Modes == {<<"6", "4", "4">>, <<"1", "7", "5", "5">>, <<"0", "6", "4", "4">>, <<"9", "9", "9">>,
          <<"1", "2", "3", "4", "5">>}
\* "b:f", ":f", "b", "a:b:d", "b:"
Owners == {<<"b", ":", "f">>, <<":", "f">>, <<"b">>, <<"a", ":", "b", ":", "d">>,
           <<"b", ":">>}

\* values of --threads: one the executor refuses, the default, and one that lets
\* two downloads run at the same time
ThreadCounts == {0, 1, 2}

\* local paths: "d" is an empty directory, "g" is a file, "f" is absent
Ld == <<"d">>
Lf == <<"f">>
Lg == <<"g">>
LocalDsts == {Ld, Lf, Lg}

DirEntry == [kind |-> "dir", content |-> << >>, mtime |-> [sec |-> 0, frac |-> 0],
             atime |-> [sec |-> 0, frac |-> 0], perm |-> 493]
OldFile == [kind |-> "file", content |-> <<"old">>, mtime |-> [sec |-> 0, frac |-> 0],
            atime |-> [sec |-> 0, frac |-> 0], perm |-> 420]
LocalInit == (Ld :> DirEntry) @@ (Lg :> OldFile)

Commands == {"cat", "chmod", "chown", "get", "mkdir", "mv"}
SeqCmds == {"cat", "chmod", "chown", "mkdir"}

\* the Namespace argparse builds, with the defaults of the options a command lacks
DefaultArgs ==
  [src |-> << >>, dst |-> << >>, threads |-> 1, force |-> FALSE, preserve |-> FALSE,
   octalmode |-> << >>, owner |-> << >>, recursive |-> FALSE, parent |-> FALSE]

ArgsOf(c) ==
  CASE c = "cat" ->
         {[DefaultArgs EXCEPT !.src = s] : s \in Lists(CatUrls)}
    [] c = "mkdir" ->
         {[DefaultArgs EXCEPT !.src = s, !.parent = b] :
            s \in Lists(SeqUrls), b \in BOOLEAN}
    [] c = "chmod" ->
         {[DefaultArgs EXCEPT !.src = s, !.octalmode = m, !.recursive = r] :
            s \in Lists(SeqUrls), m \in Modes, r \in BOOLEAN}
    [] c = "chown" ->
         {[DefaultArgs EXCEPT !.src = s, !.owner = o, !.recursive = r] :
            s \in Lists(SeqUrls), o \in Owners, r \in BOOLEAN}
    [] c = "get" ->
         {[DefaultArgs EXCEPT !.src = s, !.dst = d, !.threads = t,
                              !.force = f, !.preserve = p] :
            s \in Lists(GetUrls), d \in LocalDsts, t \in ThreadCounts,
            f \in BOOLEAN, p \in BOOLEAN}
    [] c = "mv" ->
         {[DefaultArgs EXCEPT !.src = s, !.dst = d] :
            s \in Lists(MvUrls), d \in MvDsts}

(* ------------------------------- state -------------------------------- *)
VARIABLES
  cmd,        \* the subcommand main() dispatches to
  args,       \* the parsed arguments
  pc,         \* position of the main thread in the command
  idx,        \* index of the loop of the main thread
  loc,        \* local variables of the command
  err,        \* the exception that left the command, NoErr while there is none
  clients,    \* the cache of _get_client: connection url -> Client instance
  calls,      \* the calls the main thread made to Filesystem Clients, in order
  local,      \* the local file system: path -> entry
  jobs,       \* the downloads of get: job -> record
  queue,      \* work queue of the ThreadPoolExecutor
  nthreads,   \* worker threads the executor has started
  idle,       \* the executor's idle semaphore
  completed,  \* jobs in the order they finished
  fin0,       \* as_completed: futures found finished at the call, not yielded yet
  later,      \* as_completed: futures that finished after the call, not yielded yet
  yielded     \* as_completed: futures yielded so far

inVars == <<cmd, args>>
mainVars == <<pc, idx, loc, err>>
envVars == <<clients, calls, local>>
poolVars == <<jobs, queue, nthreads, idle, completed, fin0, later, yielded>>
vars == <<cmd, args, pc, idx, loc, err, clients, calls, local,
          jobs, queue, nthreads, idle, completed, fin0, later, yielded>>

NoErr == [kind |-> "none", what |-> "", job |-> 0]
ValueError(w) == [kind |-> "ValueError", what |-> w, job |-> 0]
RemoteError(op, j) == [kind |-> "RemoteError", what |-> op, job |-> j]

\* a call to a Filesystem Client: i is the index of the source (or job) it is made for
Call(op, client, path, arg, res, i) ==
  [op |-> op, client |-> client, path |-> path, arg |-> arg, res |-> res, i |-> i]

LocInit ==
  [client |-> None, paths |-> << >>, dst_path |-> << >>, dst_isdir |-> FALSE,
   resolved_src |-> << >>, permission |-> 0, owner |-> None, group |-> None,
   listing |-> << >>, listed |-> << >>, finished |-> {}]

Init ==
  /\ cmd \in Commands
  /\ args \in ArgsOf(cmd)
  /\ pc = "start"
  /\ idx = 1
  /\ loc = LocInit
  /\ err = NoErr
  /\ clients = << >>
  /\ calls = << >>
  /\ local = LocalInit
  /\ jobs = << >>
  /\ queue = << >>
  /\ nthreads = 0
  /\ idle = 0
  /\ completed = << >>
  /\ fin0 = {}
  /\ later = << >>
  /\ yielded = {}

\* the command raises e
Raise(e) == pc' = "done" /\ err' = e

(* ---------------------- chmod, chown, cat, mkdir ---------------------- *)
\* OwnerOf that passes the empty text before the colon on as the owner
OwnerOfKeepsEmpty(s) ==
  LET split == Split(s, ":")
  IN  split[1]

\* chown: args.owner.split(":") and the owner and group it yields
OwnerOf(s) ==
  LET split == Split(s, ":")
  IN  IF Len(split) = 1 THEN split[1]
      ELSE IF split[1] # << >> THEN split[1] ELSE None

GroupOf(s) ==
  LET split == Split(s, ":")
  IN  IF Len(split) = 1 THEN None ELSE split[2]

\* chmod and chown validate their argument before the loop; cat and mkdir have none
Validate ==
  /\ pc = "start" /\ cmd \in SeqCmds
  /\ IF cmd = "chmod" /\ ~ModeMatches(args.octalmode)
       THEN Raise(ValueError("mode")) /\ UNCHANGED loc
     ELSE IF cmd = "chown" /\ Len(Split(args.owner, ":")) > 2
       THEN Raise(ValueError("owner")) /\ UNCHANGED loc
     ELSE /\ pc' = "loop"
          /\ err' = err
          /\ loc' = IF cmd = "chmod"
                      THEN [loc EXCEPT !.permission = OctToInt(args.octalmode)]
                    ELSE IF cmd = "chown"
                      THEN [loc EXCEPT !.owner = OwnerOf(args.owner),
                                       !.group = GroupOf(args.owner)]
                    ELSE loc
  /\ UNCHANGED <<inVars, idx, envVars, poolVars>>

\* for url in args.path: client = _client_for_url(url)
SeqResolve ==
  /\ pc = "loop" /\ cmd \in SeqCmds
  /\ LET url == args.src[idx]
     IN  IF ClientRaises(url)
         THEN Raise(ValueError("scheme")) /\ UNCHANGED <<loc, clients>>
         ELSE /\ clients' = _get_client(clients, ConnectionUrl(url))
              /\ loc' = [loc EXCEPT !.client = clients'[ConnectionUrl(url)]]
              /\ pc' = "call"
              /\ err' = err
  /\ UNCHANGED <<inVars, idx, calls, local, poolVars>>

\* the end of one iteration of the loop over the paths
NextPath ==
  IF idx = Len(args.src)
  THEN pc' = "done" /\ idx' = idx
  ELSE pc' = "loop" /\ idx' = idx + 1

\* client.list_status(path, True): the root and its descendants
list_status(path) ==
  {<<path>>,
   <<path, join(path, <<"a">>)>>,
   <<path, join(path, <<"a">>), join(path, <<"b">>)>>}

\* the call the loop body makes for a path that is not walked recursively
SeqOp ==
  CASE cmd = "cat" -> [op |-> "read", arg |-> << >>]
    [] cmd = "mkdir" -> [op |-> "mkdirs", arg |-> <<args.parent>>]
    [] cmd = "chmod" -> [op |-> "set_permission", arg |-> <<loc.permission>>]
    [] cmd = "chown" -> [op |-> "set_owner", arg |-> <<loc.owner, loc.group>>]

\* the body of the loop: one call on the path, or the listing of a recursive walk
SeqCall ==
  /\ pc = "call" /\ cmd \in SeqCmds
  /\ LET path == IF cmd = "mkdir" THEN _path_for_url(args.src[idx])
                 ELSE _glob_path(loc.client, _path_for_url(args.src[idx]))[1]
         rec == cmd \in {"chmod", "chown"} /\ args.recursive
     IN  IF rec
         THEN \/ \E l \in list_status(path) :
                   /\ calls' = Append(calls, Call("list_status", loc.client, path, <<TRUE>>, "ok", idx))
                   /\ loc' = [loc EXCEPT !.listing = l, !.listed = Append(@, l)]
                   /\ pc' = "walk"
                   /\ UNCHANGED <<idx, err>>
              \/ /\ calls' = Append(calls, Call("list_status", loc.client, path, <<TRUE>>, "fail", idx))
                 /\ Raise(RemoteError("list_status", 0))
                 /\ UNCHANGED <<idx, loc>>
         ELSE \/ /\ calls' = Append(calls, Call(SeqOp.op, loc.client, path, SeqOp.arg, "ok", idx))
                 /\ NextPath
                 /\ UNCHANGED <<loc, err>>
              \/ /\ calls' = Append(calls, Call(SeqOp.op, loc.client, path, SeqOp.arg, "fail", idx))
                 /\ Raise(RemoteError(SeqOp.op, 0))
                 /\ UNCHANGED <<idx, loc>>
  /\ UNCHANGED <<inVars, clients, local, poolVars>>

\* SeqWalk that leaves the loop over the listing after its first entry
SeqWalkFirstOnly ==
  /\ pc = "walk" /\ cmd \in {"chmod", "chown"}
  /\ LET entry == Head(loc.listing)
     IN  \/ /\ calls' = Append(calls, Call(SeqOp.op, loc.client, entry, SeqOp.arg, "ok", idx))
            /\ loc' = [loc EXCEPT !.listing = << >>]
            /\ NextPath
            /\ err' = err
         \/ /\ calls' = Append(calls, Call(SeqOp.op, loc.client, entry, SeqOp.arg, "fail", idx))
            /\ Raise(RemoteError(SeqOp.op, 0))
            /\ UNCHANGED <<idx, loc>>
  /\ UNCHANGED <<inVars, clients, local, poolVars>>

\* for status in client.list_status(path, True): set_permission / set_owner
SeqWalk ==
  /\ pc = "walk" /\ cmd \in {"chmod", "chown"}
  /\ LET entry == Head(loc.listing)
     IN  \/ /\ calls' = Append(calls, Call(SeqOp.op, loc.client, entry, SeqOp.arg, "ok", idx))
            /\ loc' = [loc EXCEPT !.listing = Tail(loc.listing)]
            /\ IF Len(loc.listing) = 1 THEN NextPath ELSE UNCHANGED <<pc, idx>>
            /\ err' = err
         \/ /\ calls' = Append(calls, Call(SeqOp.op, loc.client, entry, SeqOp.arg, "fail", idx))
            /\ Raise(RemoteError(SeqOp.op, 0))
            /\ UNCHANGED <<idx, loc>>
  /\ UNCHANGED <<inVars, clients, local, poolVars>>

(* --------------------------------- mv --------------------------------- *)
\* _verify_nameservices_match(args.dst, *args.src)
MvVerify ==
  /\ pc = "start" /\ cmd = "mv"
  /\ IF NameservicesMismatch(args.dst, args.src)
       THEN Raise(ValueError("nameservice"))
       ELSE pc' = "client" /\ err' = err
  /\ UNCHANGED <<inVars, idx, loc, envVars, poolVars>>

\* client = _client_for_url(args.dst); dst_path = _path_for_url(args.dst)
MvClient ==
  /\ pc = "client" /\ cmd = "mv"
  /\ IF ClientRaises(args.dst)
       THEN Raise(ValueError("scheme")) /\ UNCHANGED <<loc, clients>>
       ELSE /\ clients' = _get_client(clients, ConnectionUrl(args.dst))
            /\ loc' = [loc EXCEPT !.client = clients'[ConnectionUrl(args.dst)],
                                   !.dst_path = _path_for_url(args.dst)]
            /\ pc' = "probe"
            /\ err' = err
  /\ UNCHANGED <<inVars, idx, calls, local, poolVars>>

\* MvProbe without the except clause: FileNotFoundError leaves mv
MvProbeNotFoundRaises ==
  /\ pc = "probe" /\ cmd = "mv"
  /\ \E res \in {"dir", "file", "notfound", "fail"} :
       /\ calls' = Append(calls, Call("get_file_info", loc.client, loc.dst_path, << >>, res, 0))
       /\ IF res \in {"fail", "notfound"}
            THEN Raise(RemoteError("get_file_info", 0)) /\ UNCHANGED loc
            ELSE /\ loc' = [loc EXCEPT !.dst_isdir = (res = "dir")]
                 /\ pc' = "expand"
                 /\ err' = err
  /\ UNCHANGED <<inVars, idx, clients, local, poolVars>>

\* dst_isdir = client.get_file_info(dst_path).isdir, False on FileNotFoundError
MvProbe ==
  /\ pc = "probe" /\ cmd = "mv"
  /\ \E res \in {"dir", "file", "notfound", "fail"} :
       /\ calls' = Append(calls, Call("get_file_info", loc.client, loc.dst_path, << >>, res, 0))
       /\ IF res = "fail"
            THEN Raise(RemoteError("get_file_info", 0)) /\ UNCHANGED loc
            ELSE /\ loc' = [loc EXCEPT !.dst_isdir = (res = "dir")]
                 /\ pc' = "expand"
                 /\ err' = err
  /\ UNCHANGED <<inVars, idx, clients, local, poolVars>>

\* resolved_src: every pattern of args.src through _path_for_url and _glob_path
ResolvedSrc(client, src) ==
  [k \in 1..Len(src) |-> _glob_path(client, _path_for_url(src[k]))[1]]

\* MvExpand with the check made inside the loop, after the first rename
MvExpandCheckInLoop ==
  /\ pc = "expand" /\ cmd = "mv"
  /\ LET resolved_src == ResolvedSrc(loc.client, args.src)
     IN  IF Len(resolved_src) > 1 /\ ~loc.dst_isdir
         THEN /\ calls' = Append(calls, Call("rename", loc.client, resolved_src[1],
                                             <<loc.dst_path>>, "ok", 1))
              /\ Raise(ValueError("multi"))
              /\ UNCHANGED loc
         ELSE /\ loc' = [loc EXCEPT !.resolved_src = resolved_src]
              /\ pc' = "rename"
              /\ err' = err
              /\ UNCHANGED calls
  /\ UNCHANGED <<inVars, idx, clients, local, poolVars>>

\* the check of the number of sources against the kind of the destination
MvExpand ==
  /\ pc = "expand" /\ cmd = "mv"
  /\ LET resolved_src == ResolvedSrc(loc.client, args.src)
     IN  IF Len(resolved_src) > 1 /\ ~loc.dst_isdir
         THEN Raise(ValueError("multi")) /\ UNCHANGED loc
         ELSE /\ loc' = [loc EXCEPT !.resolved_src = resolved_src]
              /\ pc' = "rename"
              /\ err' = err
  /\ UNCHANGED <<inVars, idx, envVars, poolVars>>

\* src_path = _path_for_url(src), inside the loop over resolved_src
MvSrcPath(src) == _path_for_url(src)

\* target_path of one rename
MvTarget(dst_path, src_path, dst_isdir) ==
  IF dst_isdir THEN join(dst_path, basename(src_path)) ELSE dst_path

\* MvRename that goes on with the next source after a rename has failed
MvRenameKeepGoing ==
  /\ pc = "rename" /\ cmd = "mv"
  /\ LET src_path == _path_for_url(loc.resolved_src[idx])
         target_path == IF loc.dst_isdir THEN join(loc.dst_path, basename(src_path))
                        ELSE loc.dst_path
     IN  \E res \in {"ok", "fail"} :
           /\ calls' = Append(calls, Call("rename", loc.client, src_path, <<target_path>>, res, idx))
           /\ IF idx = Len(loc.resolved_src)
                THEN /\ pc' = "done" /\ idx' = idx
                     /\ err' = IF res = "fail" THEN RemoteError("rename", 0) ELSE err
                ELSE pc' = pc /\ idx' = idx + 1 /\ err' = err
  /\ UNCHANGED <<inVars, loc, clients, local, poolVars>>

\* for src in resolved_src: client.rename(src_path, target_path)
MvRename ==
  /\ pc = "rename" /\ cmd = "mv"
  /\ LET src_path == MvSrcPath(loc.resolved_src[idx])
         target_path == MvTarget(loc.dst_path, src_path, loc.dst_isdir)
     IN  \/ /\ calls' = Append(calls, Call("rename", loc.client, src_path, <<target_path>>, "ok", idx))
            /\ IF idx = Len(loc.resolved_src)
                 THEN pc' = "done" /\ idx' = idx
                 ELSE pc' = pc /\ idx' = idx + 1
            /\ err' = err
         \/ /\ calls' = Append(calls, Call("rename", loc.client, src_path, <<target_path>>, "fail", idx))
            /\ Raise(RemoteError("rename", 0))
            /\ idx' = idx
  /\ UNCHANGED <<inVars, loc, clients, local, poolVars>>

(* ------------------------- the local file system ---------------------- *)
\* a path without its trailing slashes
RECURSIVE StripSlash(_)
StripSlash(p) ==
  IF Len(p) > 1 /\ p[Len(p)] = "/" THEN StripSlash(Take(p, Len(p) - 1)) ELSE p

\* "dir", "file" or "absent": what os.path.isdir and os.path.exists look at
LocalKind(fs, p) ==
  LET q == StripSlash(p)
  IN  IF q \notin DOMAIN fs THEN "absent"
      ELSE IF q # p /\ fs[q].kind # "dir" THEN "absent"
      ELSE fs[q].kind

\* open(p, "wb") raises: p is a directory, or its parent is not one
OpenFails(fs, p) ==
  LET cut == RFind(p, {"/"}, Len(p))
  IN  \/ p = << >>
      \/ LocalKind(fs, p) = "dir"
      \/ p[Len(p)] = "/"
      \/ cut > 1 /\ LocalKind(fs, Take(p, cut - 1)) # "dir"

\* milliseconds / 1000, a float: whole seconds and the fraction, in thousandths
MsToSec(ms) == [sec |-> ms \div 1000, frac |-> ms % 1000]

\* open(p, "wb"): the file is created, or truncated when it exists
Truncated(fs, p) ==
  IF p \in DOMAIN fs THEN [fs[p] EXCEPT !.content = << >>, !.mtime = MsToSec(5000)]
  ELSE [kind |-> "file", content |-> << >>, mtime |-> MsToSec(5000), atime |-> MsToSec(5000),
        perm |-> 420]

\* the FileStatus values get_file_info may return
Statuses == {[access_time |-> 1500, modification_time |-> 2500, permission |-> 384]}

(* --------------------------- _download_file --------------------------- *)
Job(client, path, dst, st, pooled) ==
  [client |-> client, path |-> path, dst |-> dst, st |-> st, pooled |-> pooled,
   calls |-> << >>, err |-> NoErr]

RunningSts == {"check", "read", "copy", "preserve"}
Finished == {j \in DOMAIN jobs : jobs[j].st \in {"ok", "failed"}}

\* what no step of a download touches
JobFrame == UNCHANGED <<inVars, idx, loc, clients, queue, nthreads, fin0, yielded>>

\* the downloads that have been started and have not ended
Running == {j \in DOMAIN jobs : jobs[j].st \in RunningSts}

\* a step inside _download_file that does not end it
Continue == UNCHANGED <<pc, err, idle, completed, later>>

\* _download_file returns (e = NoErr) or raises e: the future of a pooled job is
\* set and its waiters notified, the worker releases the idle semaphore; a download
\* run by get itself ends the command
Finish(j, rec, e) ==
  /\ jobs' = [jobs EXCEPT ![j] = [rec EXCEPT !.st = IF e = NoErr THEN "ok" ELSE "failed",
                                             !.err = e]]
  /\ completed' = Append(completed, j)
  /\ IF jobs[j].pooled
       THEN /\ idle' = idle + 1
            /\ later' = IF pc = "collect" THEN Append(later, j) ELSE later
            /\ UNCHANGED <<pc, err>>
       ELSE /\ pc' = "done"
            /\ err' = e
            /\ UNCHANGED <<idle, later>>

\* MayStart without the bound of max_workers threads
MayStartUnbounded(j) == queue # << >> /\ j = Head(queue)

\* a worker thread that has no work item takes the next one off the queue
MayStart(j) == queue # << >> /\ j = Head(queue) /\ Cardinality(Running) < nthreads

\* JobCheck that raises for an existing local path also when force is set
JobCheckIgnoresForce(j) ==
  /\ \/ jobs[j].st = "check" /\ queue' = queue
     \/ jobs[j].st = "queued" /\ MayStart(j) /\ queue' = Tail(queue)
  /\ IF LocalKind(local, jobs[j].dst) # "absent"
       THEN Finish(j, jobs[j], [kind |-> "FileExistsError", what |-> "exists", job |-> j])
       ELSE jobs' = [jobs EXCEPT ![j].st = "read"] /\ Continue
  /\ UNCHANGED <<calls, local>>
  /\ UNCHANGED <<inVars, idx, loc, clients, nthreads, fin0, yielded>>

\* the first statement of _download_file, run by get itself or by a worker thread
\* that takes the work item off the queue:
\* if not force and os.path.exists(local_dst): raise FileExistsError
JobCheck(j) ==
  /\ \/ jobs[j].st = "check" /\ queue' = queue
     \/ jobs[j].st = "queued" /\ MayStart(j) /\ queue' = Tail(queue)
  /\ IF ~args.force /\ LocalKind(local, jobs[j].dst) # "absent"
       THEN Finish(j, jobs[j], [kind |-> "FileExistsError", what |-> "exists", job |-> j])
       ELSE jobs' = [jobs EXCEPT ![j].st = "read"] /\ Continue
  /\ UNCHANGED <<calls, local>>
  /\ UNCHANGED <<inVars, idx, loc, clients, nthreads, fin0, yielded>>

\* the call a download makes to its client, kept with the download that made it
JobCall(j, op, res) ==
  [jobs[j] EXCEPT !.calls = Append(@, Call(op, jobs[j].client, jobs[j].path, << >>, res, j))]

\* JobOpen with the two with statements exchanged: the local file is opened first
JobOpenLocalFirst(j) ==
  /\ jobs[j].st = "read"
  /\ IF OpenFails(local, jobs[j].dst)
       THEN /\ Finish(j, jobs[j], [kind |-> "OSError", what |-> "open", job |-> j])
            /\ UNCHANGED local
       ELSE /\ local' = (jobs[j].dst :> Truncated(local, jobs[j].dst)) @@ local
            /\ \/ Finish(j, JobCall(j, "read", "fail"), RemoteError("read", j))
               \/ /\ jobs' = [jobs EXCEPT ![j] = [JobCall(j, "read", "ok") EXCEPT !.st = "copy"]]
                  /\ Continue
  /\ UNCHANGED calls
  /\ JobFrame

\* with client.read(remote_src) as remote_file: with open(local_dst, "wb") as
\* local_file: the remote file is opened first, the local file is created or
\* truncated only when that succeeded
JobOpen(j) ==
  /\ jobs[j].st = "read"
  /\ \/ /\ Finish(j, JobCall(j, "read", "fail"), RemoteError("read", j))
        /\ UNCHANGED local
     \/ IF OpenFails(local, jobs[j].dst)
        THEN /\ Finish(j, JobCall(j, "read", "ok"),
                       [kind |-> "OSError", what |-> "open", job |-> j])
             /\ UNCHANGED local
        ELSE /\ local' = (jobs[j].dst :> Truncated(local, jobs[j].dst)) @@ local
             /\ jobs' = [jobs EXCEPT ![j] = [JobCall(j, "read", "ok") EXCEPT !.st = "copy"]]
             /\ Continue
  /\ UNCHANGED calls
  /\ JobFrame

\* what the remote file of a job holds
Content(j) == <<jobs[j].client, jobs[j].path>>

\* for chunk in remote_file.read_range_stream(...): local_file.write(chunk), then both
\* files are closed; a failure of the stream leaves the local file as open made it
JobCopy(j) ==
  /\ jobs[j].st = "copy"
  /\ \/ /\ local' = [local EXCEPT ![jobs[j].dst].content = <<Content(j)>>]
        /\ IF args.preserve
             THEN jobs' = [jobs EXCEPT ![j].st = "preserve"] /\ Continue
             ELSE Finish(j, jobs[j], NoErr)
     \/ /\ Finish(j, jobs[j], RemoteError("read_range_stream", j))
        /\ UNCHANGED local
  /\ UNCHANGED calls
  /\ JobFrame

\* JobPreserve that hands the times to os.utime in milliseconds
JobPreserveMillis(j) ==
  /\ jobs[j].st = "preserve"
  /\ \/ \E status \in Statuses :
          /\ local' = [local EXCEPT
                         ![jobs[j].dst].atime = [sec |-> status.access_time, frac |-> 0],
                         ![jobs[j].dst].mtime = [sec |-> status.modification_time, frac |-> 0],
                         ![jobs[j].dst].perm = status.permission]
          /\ Finish(j, JobCall(j, "get_file_info", "ok"), NoErr)
     \/ /\ Finish(j, JobCall(j, "get_file_info", "fail"), RemoteError("get_file_info", j))
        /\ UNCHANGED local
  /\ UNCHANGED calls
  /\ JobFrame

\* if preserve: status = client.get_file_info(remote_src); os.utime(local_dst,
\* (atime / 1000, mtime / 1000)); os.chmod(local_dst, permission)
JobPreserve(j) ==
  /\ jobs[j].st = "preserve"
  /\ \/ \E status \in Statuses :
          /\ local' = [local EXCEPT
                         ![jobs[j].dst].atime = MsToSec(status.access_time),
                         ![jobs[j].dst].mtime = MsToSec(status.modification_time),
                         ![jobs[j].dst].perm = status.permission]
          /\ Finish(j, JobCall(j, "get_file_info", "ok"), NoErr)
     \/ /\ Finish(j, JobCall(j, "get_file_info", "fail"), RemoteError("get_file_info", j))
        /\ UNCHANGED local
  /\ UNCHANGED calls
  /\ JobFrame

(* --------------------------------- get -------------------------------- *)
\* for url in args.src: paths.append((client, path))
GetResolve ==
  /\ pc = "start" /\ cmd = "get"
  /\ LET url == args.src[idx]
         client == _get_client(clients, ConnectionUrl(url))[ConnectionUrl(url)]
         path == _glob_path(client, _path_for_url(url))[1]
     IN  IF ClientRaises(url)
         THEN Raise(ValueError("scheme")) /\ UNCHANGED <<idx, loc, clients>>
         ELSE /\ clients' = _get_client(clients, ConnectionUrl(url))
              /\ loc' = [loc EXCEPT !.paths = Append(@, [client |-> client, path |-> path])]
              /\ IF idx = Len(args.src)
                   THEN pc' = "isdir" /\ idx' = idx
                   ELSE pc' = pc /\ idx' = idx + 1
              /\ err' = err
  /\ UNCHANGED <<inVars, calls, local, poolVars>>

\* GetCheckDst without the check of the number of sources: the first is downloaded
GetCheckDstNoMulti ==
  /\ pc = "isdir" /\ cmd = "get"
  /\ LET dst_is_dir == LocalKind(local, args.dst) = "dir"
     IN  IF ~dst_is_dir
         THEN /\ jobs' = <<Job(loc.paths[1].client, loc.paths[1].path, args.dst,
                               "check", FALSE)>>
              /\ pc' = "single"
              /\ UNCHANGED <<loc, err>>
         ELSE /\ loc' = [loc EXCEPT !.dst_isdir = TRUE]
              /\ pc' = "pool"
              /\ UNCHANGED <<err, jobs>>
  /\ UNCHANGED <<inVars, idx, envVars, queue, nthreads, idle, completed, fin0, later, yielded>>

\* dst_is_dir = os.path.isdir(args.localdst) and the branch taken on it
GetCheckDst ==
  /\ pc = "isdir" /\ cmd = "get"
  /\ LET dst_is_dir == LocalKind(local, args.dst) = "dir"
     IN  IF Len(loc.paths) > 1 /\ ~dst_is_dir
         THEN Raise(ValueError("multi")) /\ UNCHANGED <<loc, jobs>>
         ELSE IF ~dst_is_dir
         THEN /\ jobs' = <<Job(loc.paths[1].client, loc.paths[1].path, args.dst,
                               "check", FALSE)>>
              /\ pc' = "single"
              /\ UNCHANGED <<loc, err>>
         ELSE /\ loc' = [loc EXCEPT !.dst_isdir = TRUE]
              /\ pc' = "pool"
              /\ UNCHANGED <<err, jobs>>
  /\ UNCHANGED <<inVars, idx, envVars, queue, nthreads, idle, completed, fin0, later, yielded>>

\* ThreadPoolExecutor(args.threads): ValueError unless max_workers > 0
GetPool ==
  /\ pc = "pool" /\ cmd = "get"
  /\ IF args.threads <= 0
       THEN Raise(ValueError("threads")) /\ idx' = idx
       ELSE pc' = "submit" /\ idx' = 1 /\ err' = err
  /\ UNCHANGED <<inVars, loc, envVars, poolVars>>

\* the local destination of the job of a resolved path
LocalDst(localdst, path) == join(localdst, basename(path))

\* executor.submit: the work item is queued; a worker thread is started unless one
\* is idle or max_workers threads exist already
GetSubmit ==
  /\ pc = "submit" /\ cmd = "get"
  /\ LET p == loc.paths[idx]
     IN  jobs' = Append(jobs, Job(p.client, p.path, LocalDst(args.dst, p.path),
                                  "queued", TRUE))
  /\ queue' = Append(queue, idx)
  /\ IF idle > 0 THEN idle' = idle - 1 /\ nthreads' = nthreads
     ELSE IF nthreads < args.threads THEN nthreads' = nthreads + 1 /\ idle' = idle
     ELSE UNCHANGED <<idle, nthreads>>
  /\ IF idx = Len(loc.paths)
       THEN pc' = "as_completed" /\ idx' = idx
       ELSE pc' = pc /\ idx' = idx + 1
  /\ UNCHANGED <<inVars, loc, err, envVars, completed, fin0, later, yielded>>

\* as_completed(futures): the futures that are finished already are set aside to be
\* yielded first, a waiter is installed on the others
GetAsCompleted ==
  /\ pc = "as_completed" /\ cmd = "get"
  /\ fin0' = Finished
  /\ loc' = [loc EXCEPT !.finished = Finished]
  /\ pc' = "collect"
  /\ UNCHANGED <<inVars, idx, err, envVars, jobs, queue, nthreads, idle, completed,
                 later, yielded>>

\* NextYield without the order of completion among the futures that finished late
NextYieldAnyOrder ==
  IF fin0 # {} THEN fin0 ELSE {later[n] : n \in 1..Len(later)}

\* the futures as_completed may yield next: any of those finished at the call (they
\* are kept in a set), then the others in the order they finished
NextYield ==
  IF fin0 # {} THEN fin0
  ELSE IF later # << >> THEN {Head(later)}
  ELSE {}

\* GetCollect whose exception leaves get without passing through the end of the
\* with block
GetCollectRaisesAtOnce ==
  /\ pc = "collect" /\ cmd = "get"
  /\ \E j \in NextYield :
       /\ yielded' = yielded \cup {j}
       /\ fin0' = fin0 \ {j}
       /\ later' = SelectSeq(later, LAMBDA x : x # j)
       /\ IF jobs[j].st = "failed"
            THEN pc' = "done" /\ err' = jobs[j].err
          ELSE IF Cardinality(yielded) + 1 = Len(jobs)
            THEN pc' = "shutdown" /\ err' = err
          ELSE UNCHANGED <<pc, err>>
  /\ UNCHANGED <<inVars, idx, loc, envVars, jobs, queue, nthreads, idle, completed>>

\* for f in as_completed(futures): f.result()
GetCollect ==
  /\ pc = "collect" /\ cmd = "get"
  /\ \E j \in NextYield :
       /\ yielded' = yielded \cup {j}
       /\ fin0' = fin0 \ {j}
       /\ later' = SelectSeq(later, LAMBDA x : x # j)
       /\ IF jobs[j].st = "failed"
            THEN pc' = "shutdown" /\ err' = jobs[j].err
          ELSE IF Cardinality(yielded) + 1 = Len(jobs)
            THEN pc' = "shutdown" /\ err' = err
          ELSE UNCHANGED <<pc, err>>
  /\ UNCHANGED <<inVars, idx, loc, envVars, jobs, queue, nthreads, idle, completed>>

\* GetShutdown that does not wait for the work items (shutdown(wait=False))
GetShutdownNoWait ==
  /\ pc = "shutdown" /\ cmd = "get"
  /\ pc' = "done"
  /\ UNCHANGED <<inVars, idx, loc, err, envVars, poolVars>>

\* leaving the with block: executor.shutdown(wait=True) joins the worker threads,
\* which first run every work item still in the queue
GetShutdown ==
  /\ pc = "shutdown" /\ cmd = "get"
  /\ Finished = DOMAIN jobs
  /\ pc' = "done"
  /\ UNCHANGED <<inVars, idx, loc, err, envVars, poolVars>>

(* ------------------------------- the program -------------------------- *)
Next ==
  \/ Validate
  \/ SeqResolve
  \/ SeqCall
  \/ SeqWalk
  \/ MvVerify
  \/ MvClient
  \/ MvProbe
  \/ MvExpand
  \/ MvRename
  \/ GetResolve
  \/ GetCheckDst
  \/ GetPool
  \/ GetSubmit
  \/ GetAsCompleted
  \/ GetCollect
  \/ GetShutdown
  \/ \E j \in DOMAIN jobs : JobCheck(j)
  \/ \E j \in DOMAIN jobs : JobOpen(j)
  \/ \E j \in DOMAIN jobs : JobCopy(j)
  \/ \E j \in DOMAIN jobs : JobPreserve(j)

Spec == Init /\ [][Next]_vars

(* ------------------------------- properties --------------------------- *)
\* the command has returned or raised
Done == pc = "done"

\* a get that runs its downloads on the pool (the destination is a directory)
PoolGet == cmd = "get" /\ loc.dst_isdir

\* some source of the command line does not resolve to a client
SomeSourceUnresolvable == \E k \in 1..Len(args.src) : ClientRaises(args.src[k])

Failed == {j \in DOMAIN jobs : jobs[j].st = "failed"}
Succeeded == {j \in DOMAIN jobs : jobs[j].st = "ok"}

\* the position of job j in the order of completion
Pos(j) == CHOOSE n \in 1..Len(completed) : completed[n] = j

\* the failed job that completed first
FirstFailed == CHOOSE j \in Failed : \A k \in Failed : Pos(j) <= Pos(k)

\* C1, at the return of get: every path has its job, every job has run to its end
\* (none is left queued, running or cancelled), a failed job failed with its own
\* error, and the local file of every job that succeeded exists.
C1_AtReturn ==
  PoolGet /\ Done =>
    /\ args.threads >= 1 => Len(jobs) = Len(loc.paths)
    /\ \A j \in DOMAIN jobs :
         /\ jobs[j].st \in {"ok", "failed"}
         /\ jobs[j].st = "failed" => jobs[j].err.kind # "none" /\ jobs[j].err.job = j
         /\ jobs[j].st = "ok" => LocalKind(local, jobs[j].dst) = "file"

\* C1, step by step: no local file is ever removed, a job that is queued or running
\* only moves on within _download_file, and a finished job keeps its outcome.
C1_Step ==
  /\ \A p \in DOMAIN local : p \in DOMAIN local'
  /\ \A j \in DOMAIN jobs :
       /\ j \in DOMAIN jobs'
       /\ jobs[j].st \in {"ok", "failed"} => jobs'[j] = jobs[j]
       /\ jobs'[j].st \in RunningSts \cup {"queued", "ok", "failed"}

\* C1: in a get to a directory every submitted job runs to completion or to its own
\* failure, also after another job has failed; nothing is cancelled, skipped, deleted
\* or rolled back, and the files of the jobs that succeeded exist when get returns.
C1_NoCancelNoRollback == [](C1_AtReturn) /\ [][C1_Step]_vars

\* C1 witness: get has raised the failure of one job, and a job that finished after
\* that failure succeeded and its file is there
C1_Witness ==
  /\ PoolGet /\ Done
  /\ \E j \in Failed : \E k \in Succeeded :
       /\ Pos(j) < Pos(k)
       /\ err = jobs[j].err
       /\ LocalKind(local, jobs[k].dst) = "file"

C3_BoundedPool ==
  /\ PoolGet => Cardinality(Running) <= args.threads
  /\ cmd # "get" =>
       /\ jobs = << >> /\ nthreads = 0 /\ queue = << >>
       /\ \A k \in 1..Len(calls) :
            /\ calls[k].i <= idx
            /\ k < Len(calls) => calls[k].i <= calls[k + 1].i
            /\ (k < Len(calls) /\ ~args.recursive) => calls[k].i < calls[k + 1].i

\* C3 witness: with one thread, a job waits in the queue while another one runs
C3_Witness ==
  /\ PoolGet /\ args.threads = 1
  /\ Cardinality(Running) = 1
  /\ queue # << >>

\* C4 as stated: no two jobs of a get, also jobs of different remote files, have the
\* same local destination open for writing at the same time.
C4_ExclusiveLocalFile ==
  PoolGet =>
    \A j, k \in DOMAIN jobs :
      (/\ j # k
       /\ <<jobs[j].client, jobs[j].path>> # <<jobs[k].client, jobs[k].path>>
       /\ jobs[j].st = "copy" /\ jobs[k].st = "copy") => jobs[j].dst # jobs[k].dst

\* no call has been made to a Filesystem Client, by the command or by a download
NoCalls == calls = << >> /\ \A j \in DOMAIN jobs : jobs[j].calls = << >>

\* C5: get resolves every source and looks at the destination before any download
\* starts: while a source is unresolved no job exists and no call has been made, and
\* a get with an unresolvable source, or with several sources and a destination that
\* is not a directory, never issues a remote call, never creates a job and leaves
\* the local files as they were, and ends with a ValueError.
C5_ResolveBeforeDownload ==
  cmd = "get" =>
    /\ (jobs # << >> \/ ~NoCalls) => Len(loc.paths) = Len(args.src)
    /\ (\/ SomeSourceUnresolvable
        \/ Len(args.src) > 1 /\ LocalKind(LocalInit, args.dst) # "dir")
         => /\ NoCalls
            /\ jobs = << >>
            /\ local = LocalInit
            /\ Done => err.kind = "ValueError"

\* C5 witness: the second source failed to resolve after the first had been resolved
C5_Witness ==
  /\ cmd = "get" /\ Done /\ err = ValueError("scheme")
  /\ Len(loc.paths) = 1 /\ Len(args.src) = 2

\* the validation errors of the commands, by what they complain about
ValidationWhats == {"mode", "owner", "scheme", "nameservice", "multi"}
ValidationRaised == Done /\ err.kind = "ValueError" /\ err.what \in ValidationWhats

\* C6 as stated: whenever a command ends with a validation error, no call has been
\* made to a Filesystem Client in that run.
C6_ValidationBeforeCalls == ValidationRaised => NoCalls

\* C6 amended: a malformed mode, a malformed owner:group and mismatched nameservices
\* are raised before any call, and so are the errors of get and a host without scheme
\* in the destination of mv; the error of mv for several sources and a destination
\* that is not a directory comes after the one get_file_info of the destination and
\* before any rename; in cat, chmod, chown and mkdir a host or port without scheme in
\* the k-th URL comes after the calls for the first k-1 URLs and before any call for
\* the k-th and the later ones.
C6_ValidationOrder ==
  ValidationRaised =>
    /\ err.what \in {"mode", "owner", "nameservice"} => NoCalls
    /\ cmd = "get" => NoCalls
    /\ (cmd = "mv" /\ err.what = "scheme") => NoCalls
    /\ (cmd = "mv" /\ err.what = "multi") =>
         /\ Len(calls) = 1
         /\ calls[1].op = "get_file_info" /\ calls[1].path = _path_for_url(args.dst)
    /\ (cmd \in SeqCmds /\ err.what = "scheme") =>
         /\ ClientRaises(args.src[idx])
         /\ \A k \in 1..Len(calls) : calls[k].i < idx /\ calls[k].res = "ok"

\* C6 witness: mv raised the error about several sources after it had probed the
\* destination
C6_Witness ==
  /\ cmd = "mv" /\ Done /\ err = ValueError("multi")
  /\ Len(calls) = 1 /\ calls[1].op = "get_file_info"

\* the rename calls of mv, in the order they were made
Renames == SelectSeq(calls, LAMBDA c : c.op = "rename")

\* C7, in every state of mv: the k-th rename is the rename of the k-th source, a
\* rename is only issued after every earlier one succeeded, a failed rename ends mv
\* with that failure, and mv returns only after one rename per source.
C7_State ==
  cmd = "mv" =>
    /\ Len(Renames) <= Len(args.src)
    /\ \A k \in 1..Len(Renames) :
         /\ Renames[k].i = k
         /\ Renames[k].path = _path_for_url(loc.resolved_src[k])
         /\ k < Len(Renames) => Renames[k].res = "ok"
    /\ (Renames # << >> /\ Renames[Len(Renames)].res = "fail")
         => Done /\ err = RemoteError("rename", 0)
    /\ (Done /\ err = RemoteError("rename", 0))
         => Renames # << >> /\ Renames[Len(Renames)].res = "fail"
    /\ (Done /\ err = NoErr) => Len(Renames) = Len(args.src)

\* C7, step by step: a call that was made stays in the record of the calls, and at
\* most one call is added (no retry, no call that undoes an earlier rename)
C7_Step ==
  cmd = "mv" =>
    /\ Len(calls') \in {Len(calls), Len(calls) + 1}
    /\ SubSeq(calls', 1, Len(calls)) = calls

\* C7: mv issues one rename per resolved source, in resolution order; when the k-th
\* fails the first k-1 stay applied, no later rename is issued and the failure is
\* propagated, without retry or rollback.
C7_RenamePerSource == [](C7_State) /\ [][C7_Step]_vars

\* C7 witness: the first of two renames failed and mv ended without the second
C7_Witness ==
  /\ cmd = "mv" /\ Done /\ Len(args.src) = 2
  /\ Len(Renames) = 1 /\ Renames[1].res = "fail"
  /\ err = RemoteError("rename", 0)

\* the destination of mv was found to be a directory
ProbedDir == calls # << >> /\ calls[1].op = "get_file_info" /\ calls[1].res = "dir"

\* C8 as stated: each rename of mv goes from the path component of its source URL to
\* the destination path joined with the basename of that path when the destination
\* is a directory, and to the destination path itself otherwise.
C8_RenameFromSourcePath ==
  cmd = "mv" =>
    \A k \in 1..Len(Renames) :
      LET src_path == urlparse(args.src[Renames[k].i]).path
          dst_path == urlparse(args.dst).path
      IN  /\ Renames[k].path = src_path
          /\ Renames[k].arg = <<IF ProbedDir THEN join(dst_path, basename(src_path))
                                 ELSE dst_path>>

\* C9: in mv a destination that get_file_info does not find is taken as not a
\* directory: with one source exactly one rename is issued, to the destination path,
\* and mv does not fail for the missing destination; with several sources and a
\* destination that is missing or a file, no rename is ever issued and mv ends with
\* the validation error.
C9_MissingDestination ==
  (cmd = "mv" /\ calls # << >> /\ calls[1].res \in {"notfound", "file"}) =>
    /\ (Len(args.src) = 1 /\ calls[1].res = "notfound" /\ Done) =>
         /\ Len(Renames) = 1
         /\ Renames[1].arg = <<_path_for_url(args.dst)>>
         /\ err \in {NoErr, RemoteError("rename", 0)}
    /\ Len(args.src) > 1 =>
         /\ Renames = << >>
         /\ Done => err = ValueError("multi")

\* C9 witness: one source was renamed to a destination that did not exist
C9_Witness ==
  /\ cmd = "mv" /\ Done /\ err = NoErr /\ Len(args.src) = 1
  /\ Len(calls) = 2 /\ calls[1].res = "notfound"
  /\ calls[2].op = "rename" /\ calls[2].res = "ok"

\* the scheme or the host of source k is not that of the destination
NameserviceDiffers(k) ==
  \/ urlparse(args.src[k]).scheme # urlparse(args.dst).scheme
  \/ hostname(urlparse(args.src[k])) # hostname(urlparse(args.dst))

\* C10: when the scheme or the host of some source differs from the destination's,
\* mv makes no call at all (no rename) and ends with the validation error of the
\* nameservices; when no source differs in scheme or host, a port that differs
\* included, mv never raises that error.
C10_NameserviceCheck ==
  cmd = "mv" =>
    IF \E k \in 1..Len(args.src) : NameserviceDiffers(k)
    THEN /\ NoCalls
         /\ pc \in {"start", "done"}
         /\ Done => err = ValueError("nameservice")
    ELSE err # ValueError("nameservice")

\* C10 witness: the second source is on another host than the destination and the
\* first source, and mv ended with the validation error without a call
C10_Witness ==
  /\ cmd = "mv" /\ Done /\ err = ValueError("nameservice")
  /\ Len(args.src) = 2 /\ ~NameserviceDiffers(1) /\ NameserviceDiffers(2)
  /\ calls = << >>

\* the calls the command made for its k-th source, in order
CallsFor(k) == SelectSeq(calls, LAMBDA c : c.i = k)

SingleGet == cmd = "get" /\ jobs # << >> /\ ~jobs[1].pooled

\* the remote content of the source of job j
RemoteContent(j) == <<<<jobs[j].client, jobs[j].path>>>>

\* C12, in every state: a download that failed because its local path exists was run
\* without force and made no call to its client; a get of one source to an existing
\* file without force ends with that error, no call made and the local files as they
\* were; with force no download fails so, and when it succeeds the local file holds
\* the remote content.
C12_State ==
  /\ \A j \in DOMAIN jobs :
       jobs[j].err.kind = "FileExistsError" =>
         ~args.force /\ jobs[j].calls = << >> /\ jobs[j].st = "failed"
  /\ (SingleGet /\ Done) =>
       IF ~args.force /\ args.dst \in DOMAIN LocalInit
       THEN err.kind = "FileExistsError" /\ local = LocalInit /\ NoCalls
       ELSE err = NoErr => /\ local[args.dst].kind = "file"
                           /\ local[args.dst].content = RemoteContent(1)

\* C12, step by step: the step in which a download fails for the existing local path
\* changes no local file; with force the first step of a download always goes on to
\* the remote read; the step that ends the copy leaves the remote content in the
\* local file.
C12_Step ==
  \A j \in DOMAIN jobs :
    /\ (jobs[j].err.kind # "FileExistsError" /\ jobs'[j].err.kind = "FileExistsError")
         => local' = local /\ LocalKind(local, jobs[j].dst) # "absent"
    /\ (args.force /\ jobs[j].st \in {"queued", "check"} /\ jobs'[j] # jobs[j])
         => jobs'[j].st = "read"
    /\ (jobs[j].st = "copy" /\ jobs'[j].st \in {"preserve", "ok"})
         => local'[jobs[j].dst].content = RemoteContent(j)

\* C12: a download to a local path that exists fails, without force, with the
\* already-exists error before any call to the Filesystem Client and leaves the local
\* file unchanged; with force it proceeds and replaces the content of the local file
\* by the remote content.
C12_ExistingLocalPath == [](C12_State) /\ [][C12_Step]_vars

\* C12 witness: a forced get to the existing file has replaced its old content
C12_Witness ==
  /\ SingleGet /\ Done /\ err = NoErr /\ args.force
  /\ args.dst = Lg
  /\ local[Lg].content = RemoteContent(1) /\ local[Lg].content # OldFile.content

\* the get_file_info calls a download made
InfoCalls(j) == SelectSeq(jobs[j].calls, LAMBDA c : c.op = "get_file_info")

\* C13, in every state: without preserve no download calls get_file_info and every
\* local file has the permission and access time it had before or was created with;
\* a download calls get_file_info at most once, for its own source, after its read;
\* when that call failed the download failed with that error and the local file is
\* there; a get of one source with preserve that succeeded left the status's times,
\* in seconds, and permission on the local file.
C13_State ==
  /\ ~args.preserve =>
       /\ \A j \in DOMAIN jobs : InfoCalls(j) = << >>
       /\ \A p \in DOMAIN local :
            IF p \in DOMAIN LocalInit
            THEN local[p].perm = LocalInit[p].perm /\ local[p].atime = LocalInit[p].atime
            ELSE local[p].perm = 420 /\ local[p].atime = [sec |-> 5, frac |-> 0]
  /\ \A j \in DOMAIN jobs :
       InfoCalls(j) # << >> =>
         /\ args.preserve
         /\ Len(jobs[j].calls) = 2
         /\ jobs[j].calls[1].op = "read" /\ jobs[j].calls[1].res = "ok"
         /\ jobs[j].calls[2].op = "get_file_info"
         /\ jobs[j].calls[2].path = jobs[j].path /\ jobs[j].calls[2].client = jobs[j].client
         /\ jobs[j].calls[2].res = "fail" =>
              /\ jobs[j].st = "failed" /\ jobs[j].err = RemoteError("get_file_info", j)
              /\ LocalKind(local, jobs[j].dst) = "file"
         /\ jobs[j].calls[2].res = "ok" => jobs[j].st = "ok"
  /\ (SingleGet /\ Done /\ args.preserve) =>
       /\ err = NoErr =>
            /\ local[args.dst].atime = [sec |-> 1, frac |-> 500]
            /\ local[args.dst].mtime = [sec |-> 2, frac |-> 500]
            /\ local[args.dst].perm = 384
            /\ local[args.dst].content = RemoteContent(1)
       /\ InfoCalls(1) # << >> /\ jobs[1].calls[2].res = "fail" =>
            /\ err = RemoteError("get_file_info", 1)
            /\ local[args.dst].content = RemoteContent(1)

\* C13, step by step: get_file_info is called by a download that has completed its
\* copy, and only then; the step that preserves sets the times 1500 ms and 2500 ms
\* as 1.5 s and 2.5 s and the permission of the status, the step in which preserving
\* fails changes no local file.
C13_Step ==
  \A j \in DOMAIN jobs :
    /\ Len(InfoCalls(j)') > Len(InfoCalls(j)) => jobs[j].st = "preserve"
    /\ (jobs[j].st # "preserve" /\ jobs'[j].st = "preserve")
         => jobs[j].st = "copy" /\ local'[jobs[j].dst].content = RemoteContent(j)
    /\ (jobs[j].st = "preserve" /\ jobs'[j].st = "ok")
         => /\ local'[jobs[j].dst] =
                 [local[jobs[j].dst] EXCEPT !.atime = [sec |-> 1, frac |-> 500],
                                            !.mtime = [sec |-> 2, frac |-> 500],
                                            !.perm = 384]
    /\ (jobs[j].st = "preserve" /\ jobs'[j].st = "failed") => local' = local

\* C13: with preserve the download fetches the remote FileStatus only after the whole
\* copy and then sets the local access and modification times (milliseconds turned
\* into seconds) and permission to its values; without preserve it makes no
\* get_file_info call and changes no attribute; a failure while preserving is
\* propagated and the copied file stays.
C13_Preserve == [](C13_State) /\ [][C13_Step]_vars

\* C13 witness: a download with preserve has ended and the local file carries the
\* times and the permission of the remote status
C13_Witness ==
  /\ SingleGet /\ Done /\ err = NoErr /\ args.preserve
  /\ Len(jobs[1].calls) = 2 /\ jobs[1].calls[2].op = "get_file_info"
  /\ local[args.dst].mtime = [sec |-> 2, frac |-> 500]
  /\ local[args.dst].perm = 384

\* u and v both have a scheme, and the same scheme, host and port
SameConnection(u, v) ==
  LET p == urlparse(u)
      q == urlparse(v)
  IN  /\ p.scheme # << >> /\ p.scheme = q.scheme
      /\ hostname(p) = hostname(q)
      /\ ~PortRaises(p) /\ ~PortRaises(q)
      /\ (PortText(p) = << >>) = (PortText(q) = << >>)
      /\ StrToInt(PortText(p)) = StrToInt(PortText(q))

\* u has neither scheme nor host nor port
Plain(u) ==
  LET p == urlparse(u)
  IN  p.scheme = << >> /\ hostname(p) = None /\ PortText(p) = << >>

\* u and v must resolve to the same Client
SameClient(u, v) == SameConnection(u, v) \/ (Plain(u) /\ Plain(v))

\* SameClient, tabulated for the URLs of the command lines
MustShare ==
  [u \in CatUrls \cup GetUrls |-> [v \in CatUrls \cup GetUrls |-> SameClient(u, v)]]

\* C14, in every state: the Clients in the cache are numbered 1..n in the order of
\* their construction, n the number of connection strings cached, so none was
\* constructed twice; and the sources of a command that have the same scheme, host
\* and port (or none of them) were all resolved to the one Client of the cache.
C14_State ==
  /\ \A c \in DOMAIN clients :
       /\ clients[c].conn = c
       /\ clients[c].id \in 1..Cardinality(DOMAIN clients)
       /\ \A d \in DOMAIN clients : clients[c].id = clients[d].id => c = d
  /\ \A k \in 1..Len(loc.paths) :
       /\ loc.paths[k].client.conn \in DOMAIN clients
       /\ loc.paths[k].client = clients[loc.paths[k].client.conn]
  /\ \A a \in 1..Len(calls) :
       /\ calls[a].client.conn \in DOMAIN clients
       /\ calls[a].client = clients[calls[a].client.conn]
  /\ \A j \in DOMAIN jobs :
       /\ jobs[j].client.conn \in DOMAIN clients
       /\ jobs[j].client = clients[jobs[j].client.conn]
  /\ cmd \in SeqCmds \cup {"get"} =>
       \A k, l \in 1..Len(args.src) :
         (\/ k < l /\ Len(loc.paths) >= l /\ loc.paths[k].client # loc.paths[l].client
          \/ \E a, b \in 1..Len(calls) :
               calls[a].i = k /\ calls[b].i = l /\ calls[a].client # calls[b].client)
           => ~MustShare[args.src[k]][args.src[l]]

\* C14, step by step: a cached Client is never replaced and never evicted
C14_Step == \A c \in DOMAIN clients : c \in DOMAIN clients' /\ clients'[c] = clients[c]

\* C14: URLs with a scheme and the same scheme, host and port resolve to the identical
\* Client instance; at most one Client is constructed per connection string and one
\* for the default connection, and a cached Client is never replaced or evicted.
C14_OneClientPerConnection == [](C14_State) /\ [][C14_Step]_vars

\* C14 witness: cat has read "h://A/x" and "h://A/y" through the same Client, the
\* only one constructed
C14_Witness ==
  /\ cmd = "cat" /\ Done /\ err = NoErr
  /\ args.src = <<UAx, UAy>>
  /\ Len(calls) = 2 /\ calls[1].client = calls[2].client /\ calls[1].client.id = 1
  /\ Cardinality(DOMAIN clients) = 1

\* u has a host or a port, and no scheme
HostOrPortNoScheme(u) ==
  LET p == urlparse(u)
  IN  p.scheme = << >> /\ (hostname(p) # None \/ PortText(p) # << >>)

\* C15 as stated: a source with a host or a port and no scheme is never resolved: no
\* call is made for it, the command does not get past it and cannot end without an
\* error (with the validation error, when it got that far), and no Client is cached
\* for it; the same holds for the destination of mv; a source with neither scheme nor
\* host nor port is served by the one Client of the default connection.
C15_NoSchemeAlwaysFails ==
  /\ cmd \in SeqCmds \cup {"get"} =>
       \A k \in 1..Len(args.src) :
         /\ HostOrPortNoScheme(args.src[k]) =>
              /\ idx <= k
              /\ CallsFor(k) = << >>
              /\ Len(loc.paths) < k
              /\ Done => err # NoErr
              /\ (Done /\ err.kind = "ValueError" /\ err.what \notin {"mode", "owner"})
                   => err = ValueError("scheme")
         /\ Plain(args.src[k]) =>
              \A n \in 1..Len(CallsFor(k)) :
                /\ CallsFor(k)[n].client.conn = DefaultConn
                /\ CallsFor(k)[n].client = clients[DefaultConn]
  /\ (cmd = "mv" /\ HostOrPortNoScheme(args.dst)) =>
       /\ calls = << >> /\ clients = << >>
       /\ Done => err.kind = "ValueError"
  /\ (cmd # "mv" /\ DefaultConn \in DOMAIN clients) =>
       \E k \in 1..Len(args.src) : Plain(args.src[k])

\* an optional single leading "1" followed by exactly three digits 0-7
WellFormedMode(s) ==
  \E lead \in {<< >>, <<"1">>} : \E a, b, c \in OctalDigits : s = lead \o <<a, b, c>>

\* the base-8 value of a well-formed mode
ModeValue(s) ==
  LET n == Len(s)
  IN  (IF n = 4 THEN 512 ELSE 0)
        + 64 * DigitVal(s[n - 2]) + 8 * DigitVal(s[n - 1]) + DigitVal(s[n])

\* C16: chmod accepts the mode exactly when it is an optional single leading "1"
\* followed by exactly three digits 0-7, and then every set_permission call carries
\* its base-8 value ("644" gives 420 = 0o644, "1755" gives 1005 = 0o1755); for any
\* other string ("0644", "999", "12345") chmod makes no call and ends with the
\* validation error of the mode.
C16_ModeParsing ==
  cmd = "chmod" =>
    /\ IF WellFormedMode(args.octalmode)
       THEN /\ err # ValueError("mode")
            /\ pc # "start" => loc.permission = ModeValue(args.octalmode)
            /\ \A n \in 1..Len(calls) :
                 calls[n].op = "set_permission"
                   => calls[n].arg = <<ModeValue(args.octalmode)>>
       ELSE /\ pc \in {"start", "done"}
            /\ calls = << >>
            /\ Done => err = ValueError("mode")
    /\ args.octalmode = <<"6", "4", "4">> => (pc # "start" => loc.permission = 420)
    /\ args.octalmode = <<"1", "7", "5", "5">> => (pc # "start" => loc.permission = 1005)
    /\ args.octalmode \in {<<"0", "6", "4", "4">>, <<"9", "9", "9">>,
                            <<"1", "2", "3", "4", "5">>}
         => (pc # "start" => err = ValueError("mode"))

\* C16 witness: chmod 1755 has called set_permission with 0o1755
C16_Witness ==
  /\ cmd = "chmod" /\ Done /\ err = NoErr /\ ~args.recursive
  /\ args.octalmode = <<"1", "7", "5", "5">>
  /\ calls # << >> /\ calls[1].op = "set_permission" /\ calls[1].arg = <<1005>>

\* the number of colons of a string
Colons(s) == Cardinality({k \in 1..Len(s) : s[k] = ":"})

\* the owner and the group the owner argument stands for, when it has at most one
\* colon, at position c (0 without a colon)
ExpectedOwner(s) ==
  LET c == FindFrom(s, {":"}, 1)
  IN  IF c = 0 THEN s
      ELSE IF c = 1 THEN None
      ELSE SubSeq(s, 1, c - 1)

ExpectedGroup(s) ==
  LET c == FindFrom(s, {":"}, 1)
  IN  IF c = 0 THEN None ELSE SubSeq(s, c + 1, Len(s))

\* C17: without a colon the owner is the whole argument and the group is null; with
\* one colon the owner is the text before it, null when that is empty, and the group
\* the text after it; every set_owner call carries that owner and group ("b:f" gives
\* (b, f), ":f" gives (null, f), "b" gives (b, null)); with more than one colon
\* chown makes no call and ends with the validation error of the owner.
C17_OwnerParsing ==
  cmd = "chown" =>
    /\ IF Colons(args.owner) <= 1
       THEN /\ err # ValueError("owner")
            /\ pc # "start" => /\ loc.owner = ExpectedOwner(args.owner)
                               /\ loc.group = ExpectedGroup(args.owner)
            /\ \A n \in 1..Len(calls) :
                 calls[n].op = "set_owner"
                   => calls[n].arg = <<ExpectedOwner(args.owner), ExpectedGroup(args.owner)>>
       ELSE /\ pc \in {"start", "done"}
            /\ calls = << >>
            /\ Done => err = ValueError("owner")
    /\ pc # "start" =>
         /\ args.owner = <<"b", ":", "f">> => loc.owner = <<"b">> /\ loc.group = <<"f">>
         /\ args.owner = <<":", "f">> => loc.owner = None /\ loc.group = <<"f">>
         /\ args.owner = <<"b">> => loc.owner = <<"b">> /\ loc.group = None
         /\ args.owner = <<"a", ":", "b", ":", "d">> => err = ValueError("owner")

\* C17 witness: chown :f has called set_owner with a null owner and the group f
C17_Witness ==
  /\ cmd = "chown" /\ Done /\ err = NoErr /\ ~args.recursive
  /\ args.owner = <<":", "f">>
  /\ calls # << >> /\ calls[1].op = "set_owner" /\ calls[1].arg = <<None, <<"f">>>>

\* C18: in the state where a get to a directory has returned or raised, no download
\* of it waits in the queue of the pool and none is running: every source has its
\* job, and every job is among the completed ones, also those whose result get
\* never collected.
C18_ReturnAfterAllJobs ==
  (PoolGet /\ Done) =>
    /\ queue = << >>
    /\ Running = {}
    /\ {completed[n] : n \in 1..Len(completed)} = DOMAIN jobs
    /\ yielded \subseteq Finished
    /\ args.threads >= 1 => DOMAIN jobs = 1..Len(args.src)
    /\ err # NoErr => (args.threads < 1 \/ \E j \in yielded : jobs[j].st = "failed")

\* C18 witness: get raised the failure of the first job it collected, and the other
\* job, which it never collected, has finished all the same, after the failed one
C18_Witness ==
  /\ PoolGet /\ Done /\ Len(jobs) = 2
  /\ \E j \in DOMAIN jobs :
       /\ yielded = {j} /\ jobs[j].st = "failed" /\ err = jobs[j].err
       /\ \E k \in DOMAIN jobs \ {j} : jobs[k].st = "ok" /\ Pos(j) < Pos(k)

\* C19 as stated: without force, whenever a download opens its local file for
\* writing, that path does not exist at the moment of the open, in every
\* interleaving of the jobs of a get.
C19_CheckAndOpenAtomic ==
  [][~args.force =>
       \A j \in DOMAIN jobs :
         (jobs[j].st = "read" /\ jobs'[j].st = "copy")
           => LocalKind(local, jobs[j].dst) = "absent"]_vars

\* the remote source of download j could not be opened
ReadFailed(j) == jobs[j].calls # << >> /\ jobs[j].calls[1].res = "fail"

\* C20, in every state: a download whose remote source could not be opened made no
\* other call and failed with that error; a get of one source that ends so, also
\* with force and an existing local file, leaves the local files as they were.
C20_State ==
  /\ \A j \in DOMAIN jobs :
       ReadFailed(j) =>
         /\ Len(jobs[j].calls) = 1 /\ jobs[j].calls[1].op = "read"
         /\ jobs[j].st = "failed" /\ jobs[j].err = RemoteError("read", j)
  /\ (SingleGet /\ ReadFailed(1)) =>
       /\ Done /\ err = RemoteError("read", 1)
       /\ local = LocalInit

\* C20, step by step: the step in which opening the remote source fails changes no
\* local file, and a download enters its copy with the remote source opened; every
\* change of a local file is made by a download whose remote source has been opened.
C20_Step ==
  /\ \A j \in DOMAIN jobs :
       /\ (~ReadFailed(j) /\ ReadFailed(j)') => local' = local
       /\ (jobs[j].st # "copy" /\ jobs'[j].st = "copy")
            => /\ Len(jobs'[j].calls) = 1
               /\ jobs'[j].calls[1].op = "read" /\ jobs'[j].calls[1].res = "ok"
  /\ local' # local =>
       \E j \in DOMAIN jobs :
         /\ jobs'[j].calls # << >> /\ jobs'[j].calls[1].res = "ok"
         /\ \A p \in DOMAIN local' :
              (p \notin DOMAIN local \/ local'[p] # local[p]) => p = jobs[j].dst

\* C20: a download opens the remote source before the local destination: when the
\* remote source cannot be opened, the local destination is neither created nor
\* truncated, also with force and an existing local file.
C20_RemoteBeforeLocal == [](C20_State) /\ [][C20_Step]_vars

\* C20 witness: a forced get to the existing file failed to open its remote source
\* and the file still has its old content
C20_Witness ==
  /\ SingleGet /\ Done /\ args.force /\ args.dst = Lg
  /\ ReadFailed(1) /\ err = RemoteError("read", 1)
  /\ local[Lg] = OldFile

====
